---- MODULE Spec2Model ----
(***************************************************************************)
(* Model of the two d6tflow notebooks (example-trading.ipynb and           *)
(* example.ipynb): the task definitions, their parameters and              *)
(* dependencies, the strategy bindings, and the WorkflowMulti operations   *)
(* the notebooks call (preview, run, reset, reset_upstream, wiping the     *)
(* store directory) acting on the artifact store.                          *)
(***************************************************************************)
EXTENDS Integers, FiniteSets, Sequences, TLC

VARIABLES
    flow,      \* which notebook's WorkflowMulti object this session uses
    store,     \* the artifact store: set of <<task instance, output name>>
    pc,        \* "idle" | "running" (inside run) | "done" (a call is returning)
    call,      \* the call being made: its operation and arguments
    store0,    \* the store as it was when the current call was made
    todo,      \* strategies the current run() call still has to run, head = current
    results,   \* strategy -> Run Record (instance -> status) of the current run() call
    execs,     \* instance -> number of times its run procedure was started in this call
    report,    \* instance -> "PENDING" | "COMPLETE": what the last preview printed
    faults,    \* number of run procedures that failed in the current run() call
    calls      \* number of calls the notebook session has made so far

vars == <<flow, store, pc, call, store0, todo, results, execs, report, faults, calls>>

(***************************************************************************)
(* Bounds of the model.                                                    *)
(***************************************************************************)
\* how many run procedures may fail (raise, or stop before saving every
\* output) during one run() call
MaxFaults == 1

\* how many calls (run, preview, reset, ...) a notebook session makes
MaxCalls == 3

(***************************************************************************)
(* Task definitions.                                                       *)
(***************************************************************************)
Flows == {"trading", "ml"}

Tasks == {"GetDataEcon", "TradingSignals", "GetDataPx", "Backtest",
          "GetData", "ModelData", "ModelTrain"}

\* @d6tflow.requires(...): the declared upstream task definitions
Requires(t) ==
    CASE t = "TradingSignals" -> {"GetDataEcon"}
      [] t = "GetDataPx"      -> {"GetDataEcon"}
      [] t = "Backtest"       -> {"TradingSignals", "GetDataPx"}
      [] t = "ModelData"      -> {"GetData"}
      [] t = "ModelTrain"     -> {"ModelData"}
      [] OTHER                -> {}

\* the parameters a task class declares itself
OwnParams(t) ==
    CASE t = "GetDataEcon"    -> {"date_start", "date_end"}
      [] t = "TradingSignals" -> {"lookback_period"}
      [] t = "GetDataPx"      -> {"symbols"}
      [] t = "ModelData"      -> {"do_preprocess"}
      [] t = "ModelTrain"     -> {"model"}
      [] OTHER                -> {}

\* the parameters a task carries: its own and, through @d6tflow.requires,
\* those of every task upstream of it
RECURSIVE Carries(_)
Carries(t) == OwnParams(t) \cup UNION {Carries(u) : u \in Requires(t)}

\* persist = [...]: the declared outputs (d6tflow's default is one, 'data')
Persist(t) == IF t = "Backtest" THEN {"portfolio", "pnl"} ELSE {"data"}

(***************************************************************************)
(* Strategy bindings, with every value in its serialized form.             *)
(***************************************************************************)
Strategy1 == [date_start |-> "2018-01-01", date_end |-> "2020-01-01",
              symbols |-> "[CAT, WMT]", lookback_period |-> "1"]

Strategy2 == [Strategy1 EXCEPT !.symbols = "[MSFT, FB]"]

Strategy3 == [Strategy1 EXCEPT !.date_start = "2019-01-01"]

ParamsModel1 == [do_preprocess |-> "True", model |-> "ols"]

ParamsModel2 == [do_preprocess |-> "False", model |-> "gbm"]

Binding(s) ==
    CASE s = "strategy1" -> Strategy1
      [] s = "strategy2" -> Strategy2
      [] s = "strategy3" -> Strategy3
      [] s = "ols"       -> ParamsModel1
      [] s = "gbm"       -> ParamsModel2

\* WorkflowMulti(root, strategies): the strategies in dict order, and the root
FlowStrategies(f) ==
    IF f = "trading" THEN <<"strategy1", "strategy2", "strategy3">>
                     ELSE <<"ols", "gbm">>

FlowRoot(f) == IF f = "trading" THEN "Backtest" ELSE "ModelTrain"

SeqRange(q) == {q[k] : k \in 1..Len(q)}

StrategyNames(f) == SeqRange(FlowStrategies(f))

(***************************************************************************)
(* Task instances: identity is the task name with the serialized values of *)
(* the parameters the task carries.                                        *)
(***************************************************************************)
Restrict(b, ps) == [p \in ps |-> b[p]]

\* variant: the start date is left out of the identity
MkInst_NoStartDate(t, b) ==
    [task |-> t, params |-> Restrict(b, Carries(t) \ {"date_start"})]

\* variant: identity made of the whole binding, not of the carried parameters
MkInst_AllParams(t, b) == [task |-> t, params |-> b]

\* variant: the universe is part of the identity of every task of the backtest
MkInst_WithSymbols(t, b) ==
    [task |-> t, params |-> Restrict(b, Carries(t) \cup ({"symbols"} \cap DOMAIN b))]

MkInst(t, b) == [task |-> t, params |-> Restrict(b, Carries(t))]

\* the root instance of a strategy
RootOf(f, s) == MkInst(FlowRoot(f), Binding(s))

\* the upstream instances of an instance: each required task, bound to the
\* dependent's values of the parameters it carries
\* variant: an upstream instance is told apart by the dependent that asks for it
Deps_ByPath(i) ==
    {[task |-> u, params |-> Restrict(i.params, Carries(u)), via |-> i.task] :
        u \in Requires(i.task)}

Deps(i) == {MkInst(u, i.params) : u \in Requires(i.task)}

\* the resolved graph under an instance: the instance and everything upstream;
\* an instance reached by two paths is one element of the set
RECURSIVE Closure(_)
Closure(i) == {i} \cup UNION {Closure(u) : u \in Deps(i)}

\* the resolved graph of every strategy of every flow
Resolved ==
    [f \in Flows |-> [s \in StrategyNames(f) |-> Closure(RootOf(f, s))]]

Graph(f, s) == Resolved[f][s]

AllInstances ==
    [f \in Flows |-> UNION {Resolved[f][s] : s \in StrategyNames(f)}]

FlowInstances(f) == AllInstances[f]

Instances == UNION {AllInstances[f] : f \in Flows}

\* the dependency edges of the resolved graphs
Upstream == [i \in Instances |-> Deps(i)]

\* each instance of the resolved graphs with everything upstream of it
ClosureOf == [i \in Instances |-> Closure(i)]

\* the instances of graph g that depend, transitively, on instance n
Dependents(n, g) == {i \in g : i # n /\ n \in ClosureOf[i]}

Artifacts(i) == {<<i, o>> : o \in Persist(i.task)}

(***************************************************************************)
(* Completeness.  preview() prints Backtest PENDING after                  *)
(* flow.reset(task=TradingSignals): an instance counts as complete only    *)
(* when its own outputs exist and everything upstream of it is complete.   *)
(***************************************************************************)
\* variant: an instance with several declared outputs passes when one exists
OutputsExist_Any(st, i) == Artifacts(i) \cap st # {}

OutputsExist(st, i) == Artifacts(i) \subseteq st

\* variant: completeness looks at the instance's own outputs only
CompleteIn_OwnOutputs(st, i) == OutputsExist(st, i)

RECURSIVE CompleteIn(_, _)
CompleteIn(st, i) ==
    /\ OutputsExist(st, i)
    /\ \A u \in Upstream[i] : CompleteIn(st, u)

(***************************************************************************)
(* Scheduling pass of one strategy: the root is checked; the upstream      *)
(* tasks of a node are looked at only when the node itself is not complete *)
(* ("Scheduled 1 tasks" when the root is complete).                        *)
(***************************************************************************)
RECURSIVE Visited(_, _)
Visited(st, i) ==
    {i} \cup (IF CompleteIn(st, i) THEN {}
              ELSE UNION {Visited(st, u) : u \in Upstream[i]})

NoRecord == [i \in Instances |-> "none"]

\* variant: the scheduling pass ignores what the store already holds
Schedule_Rerun(st, root) ==
    [i \in Instances |-> IF i \in Closure(root) THEN "pending" ELSE "none"]

Schedule(st, root) ==
    LET seen == Visited(st, root)
    IN  [i \in Instances |->
            IF i \notin seen THEN "none"
            ELSE IF CompleteIn(st, i) THEN "complete" ELSE "pending"]

NoExecs == [i \in Instances |-> 0]

NoCall == [op |-> "none", task |-> "none", strategies |-> {}]

NoResults == [f \in Flows |-> [s \in StrategyNames(f) |-> NoRecord]]

Init ==
    /\ flow \in Flows
    /\ store = {}
    /\ pc = "idle"
    /\ call = NoCall
    /\ store0 = {}
    /\ todo = <<>>
    /\ results = NoResults[flow]
    /\ execs = NoExecs
    /\ report = NoRecord
    /\ faults = 0
    /\ calls = 0

\* the notebook makes a call: the session is between calls
Enter(op, t, ss) ==
    /\ pc = "idle"
    /\ calls < MaxCalls
    /\ calls' = calls + 1
    /\ call' = [op |-> op, task |-> t, strategies |-> ss]
    /\ store0' = store
    /\ UNCHANGED flow

(***************************************************************************)
(* flow.run(strategy) and flow.run(): one luigi build per strategy, in     *)
(* dict order.                                                             *)
(***************************************************************************)
RunStart(ss) ==
    /\ Enter("run", FlowRoot(flow), SeqRange(ss))
    /\ pc' = "running"
    /\ todo' = ss
    /\ results' = [s \in StrategyNames(flow) |->
                      IF s = Head(ss) THEN Schedule(store, RootOf(flow, s))
                      ELSE NoRecord]
    /\ UNCHANGED <<store, execs, report, faults>>

Run == \E s \in StrategyNames(flow) : RunStart(<<s>>)

RunAll == RunStart(FlowStrategies(flow))

\* variant: a scheduled node is started without waiting for its upstream nodes
Runnable_NoWait(rec, i) == rec[i] = "pending"

\* a scheduled node whose upstream nodes are all satisfied
Runnable(rec, i) ==
    /\ rec[i] = "pending"
    /\ \A u \in Upstream[i] : rec[u] \in {"complete", "ran"}

\* variant: the run procedure returns without having saved anything
ExecOk_NoSave ==
    /\ pc = "running"
    /\ \E i \in FlowInstances(flow) :
        /\ Runnable(results[Head(todo)], i)
        /\ results' = [results EXCEPT ![Head(todo)][i] = "ran"]
        /\ execs' = [execs EXCEPT ![i] = @ + 1]
    /\ UNCHANGED <<flow, store, pc, call, store0, todo, report, faults, calls>>

\* the run procedure returns: self.save(...) has persisted every output
ExecOk ==
    /\ pc = "running"
    /\ \E i \in FlowInstances(flow) :
        /\ Runnable(results[Head(todo)], i)
        /\ store' = store \cup Artifacts(i)
        /\ results' = [results EXCEPT ![Head(todo)][i] = "ran"]
        /\ execs' = [execs EXCEPT ![i] = @ + 1]
    /\ UNCHANGED <<flow, pc, call, store0, todo, report, faults, calls>>

\* what a run procedure can have saved when it raises: nothing; 'portfolio'
\* but not 'pnl' (Backtest saves them one after the other); the model itself
\* when ModelTrain raises in saveMeta, after self.save(model)
SavedBeforeFailure(t) ==
    CASE t = "Backtest"   -> {{}, {"portfolio"}}
      [] t = "ModelTrain" -> {{}, {"data"}}
      [] OTHER            -> {{}}

\* variant: a failure takes the store back to what it was when run() was called
ExecFail_RollsBack ==
    /\ pc = "running"
    /\ faults < MaxFaults
    /\ \E i \in FlowInstances(flow) :
        /\ Runnable(results[Head(todo)], i)
        /\ store' = store0
        /\ results' = [results EXCEPT ![Head(todo)][i] = "failed"]
        /\ execs' = [execs EXCEPT ![i] = @ + 1]
    /\ faults' = faults + 1
    /\ UNCHANGED <<flow, pc, call, store0, todo, report, calls>>

\* variant: a run procedure that stopped short of its outputs counts as run
ExecFail_RecordsRan ==
    /\ pc = "running"
    /\ faults < MaxFaults
    /\ \E i \in FlowInstances(flow) :
        /\ Runnable(results[Head(todo)], i)
        /\ \E saved \in SavedBeforeFailure(i.task) :
              store' = store \cup {<<i, o>> : o \in saved}
        /\ results' = [results EXCEPT ![Head(todo)][i] = "ran"]
        /\ execs' = [execs EXCEPT ![i] = @ + 1]
    /\ faults' = faults + 1
    /\ UNCHANGED <<flow, pc, call, store0, todo, report, calls>>

\* the run procedure raises: the node is failed
ExecFail ==
    /\ pc = "running"
    /\ faults < MaxFaults
    /\ \E i \in FlowInstances(flow) :
        /\ Runnable(results[Head(todo)], i)
        /\ \E saved \in SavedBeforeFailure(i.task) :
              store' = store \cup {<<i, o>> : o \in saved}
        /\ results' = [results EXCEPT ![Head(todo)][i] = "failed"]
        /\ execs' = [execs EXCEPT ![i] = @ + 1]
    /\ faults' = faults + 1
    /\ UNCHANGED <<flow, pc, call, store0, todo, report, calls>>

\* nothing is left to run for the current strategy: what is still pending sits
\* under a failed node and is never started; the next strategy is scheduled
SkipPending(rec) ==
    [i \in Instances |-> IF rec[i] = "pending" THEN "upfail" ELSE rec[i]]

\* variant: the call stops at the first strategy in which a node failed
FinishStrategy_AbortOnFailure ==
    /\ pc = "running"
    /\ \A i \in FlowInstances(flow) : ~Runnable(results[Head(todo)], i)
    /\ LET failed == \E i \in Instances : results[Head(todo)][i] = "failed"
           rest   == IF failed THEN <<>> ELSE Tail(todo)
       IN  /\ todo' = rest
           /\ pc' = IF rest = <<>> THEN "done" ELSE "running"
           /\ results' = [s \in StrategyNames(flow) |->
                             IF s = Head(todo) THEN SkipPending(results[s])
                             ELSE IF rest # <<>> /\ s = Head(rest)
                                  THEN Schedule(store, RootOf(flow, s))
                             ELSE results[s]]
    /\ UNCHANGED <<flow, store, call, store0, execs, report, faults, calls>>

FinishStrategy ==
    /\ pc = "running"
    /\ \A i \in FlowInstances(flow) : ~Runnable(results[Head(todo)], i)
    /\ todo' = Tail(todo)
    /\ pc' = IF Tail(todo) = <<>> THEN "done" ELSE "running"
    /\ results' = [s \in StrategyNames(flow) |->
                      IF s = Head(todo) THEN SkipPending(results[s])
                      ELSE IF Tail(todo) # <<>> /\ s = Head(Tail(todo))
                           THEN Schedule(store, RootOf(flow, s))
                      ELSE results[s]]
    /\ UNCHANGED <<flow, store, call, store0, execs, report, faults, calls>>

\* the call returns to the notebook; its result is no longer held
Return ==
    /\ pc = "done"
    /\ pc' = "idle"
    /\ call' = NoCall
    /\ store0' = {}
    /\ results' = NoResults[flow]
    /\ execs' = NoExecs
    /\ report' = NoRecord
    /\ faults' = 0
    /\ UNCHANGED <<flow, store, todo, calls>>

(***************************************************************************)
(* flow.preview(strategy): the tree of the strategy's graph with each      *)
(* node's status.                                                          *)
(***************************************************************************)
\* variant: preview goes by each node's own outputs
PreviewReport_OwnOutputs(st, g) ==
    [i \in Instances |->
        IF i \notin g THEN "none"
        ELSE IF Artifacts(i) \subseteq st THEN "COMPLETE" ELSE "PENDING"]

PreviewReport(st, g) ==
    [i \in Instances |->
        IF i \notin g THEN "none"
        ELSE IF CompleteIn(st, i) THEN "COMPLETE" ELSE "PENDING"]

\* variant: preview builds the root while it walks the tree
Preview_Executes ==
    \E s \in StrategyNames(flow) :
        /\ Enter("preview", FlowRoot(flow), {s})
        /\ report' = PreviewReport(store, Graph(flow, s))
        /\ store' = store \cup Artifacts(RootOf(flow, s))
        /\ pc' = "done"
        /\ UNCHANGED <<todo, results, execs, faults>>

Preview ==
    \E s \in StrategyNames(flow) :
        /\ Enter("preview", FlowRoot(flow), {s})
        /\ report' = PreviewReport(store, Graph(flow, s))
        /\ pc' = "done"
        /\ UNCHANGED <<store, todo, results, execs, faults>>

(***************************************************************************)
(* Resets.                                                                 *)
(***************************************************************************)
FlowTasks(f) == {i.task : i \in FlowInstances(f)}

\* variant: the task is reset under every strategy, whichever was named
ResetTargets_EveryStrategy(t, ss) ==
    {MkInst(t, Binding(s)) : s \in StrategyNames(flow)}

\* reset(task) addresses the task under every strategy, reset(task, flow=s)
\* under one
ResetTargets(t, ss) == {MkInst(t, Binding(s)) : s \in ss}

StrategyChoices(f) == {StrategyNames(f)} \cup {{s} : s \in StrategyNames(f)}

\* variant: the outputs of the task are deleted whatever its parameter values
Invalidate_ByTask(st, ns) == {a \in st : a[1].task \notin {n.task : n \in ns}}

\* the store without the artifacts of the instances in ns
Invalidate(st, ns) == st \ UNION {Artifacts(n) : n \in ns}

\* flow.reset(task, confirm=False): the outputs of that task are deleted
Reset ==
    \E t \in FlowTasks(flow), ss \in StrategyChoices(flow) :
        /\ Enter("reset", t, ss)
        /\ store' = Invalidate(store, ResetTargets(t, ss))
        /\ pc' = "done"
        /\ UNCHANGED <<todo, results, execs, report, faults>>

\* variant: the cascade also follows the edges upstream
CascadeOf_BothWays(ns, f) ==
    UNION {Closure(n) \cup Dependents(n, FlowInstances(f)) : n \in ns}

\* cascading reset: the instance and every instance downstream of it
CascadeOf(ns, f) == ns \cup UNION {Dependents(n, FlowInstances(f)) : n \in ns}

ResetCascade ==
    \E t \in FlowTasks(flow), ss \in StrategyChoices(flow) :
        /\ Enter("reset_cascade", t, ss)
        /\ store' = Invalidate(store, CascadeOf(ResetTargets(t, ss), flow))
        /\ pc' = "done"
        /\ UNCHANGED <<todo, results, execs, report, faults>>

\* variant: only the root of every strategy is reset
ResetUpstream_RootOnly ==
    /\ Enter("reset_upstream", FlowRoot(flow), StrategyNames(flow))
    /\ store' = Invalidate(store, {RootOf(flow, s) : s \in StrategyNames(flow)})
    /\ pc' = "done"
    /\ UNCHANGED <<todo, results, execs, report, faults>>

\* flow.reset_upstream(confirm=False): the root of every strategy and all
\* that is upstream of it
ResetUpstream ==
    /\ Enter("reset_upstream", FlowRoot(flow), StrategyNames(flow))
    /\ store' = Invalidate(store, FlowInstances(flow))
    /\ pc' = "done"
    /\ UNCHANGED <<todo, results, execs, report, faults>>

\* shutil.rmtree(d6tflow.settings.dirpath): the whole store is wiped
Rmtree ==
    /\ Enter("rmtree", "none", {})
    /\ store' = {}
    /\ pc' = "done"
    /\ UNCHANGED <<todo, results, execs, report, faults>>

(***************************************************************************)
(* A run() call whose root cannot be resolved: a parameter declared        *)
(* without default is not bound, or a task definition has been edited so   *)
(* that the requires-relation has a cycle.                                 *)
(***************************************************************************)
\* the declared default values (serialized)
ParamDefaults == [do_preprocess |-> "True", model |-> "ols"]

\* the parameters of a task that must be bound: those it carries that were
\* declared without default
Required(t) == Carries(t) \ DOMAIN ParamDefaults

\* what a caller may pass as binding: a strategy's binding, or part of one
PartialBindings(f) ==
    UNION {{Restrict(Binding(s), ps) : ps \in SUBSET DOMAIN Binding(s)} :
              s \in StrategyNames(f)}

\* the requires-relation with the edges in extra added: <<t, u>> says that
\* task t also requires task u
RequiresWith(extra, t) == Requires(t) \cup {e[2] : e \in {x \in extra : x[1] = t}}

RECURSIVE UpstreamWithin(_, _, _)
UpstreamWithin(extra, ts, n) ==
    IF n = 0 THEN ts
    ELSE UpstreamWithin(extra,
             ts \cup UNION {RequiresWith(extra, t) : t \in ts}, n - 1)

\* every task upstream of t, at any distance
UpstreamTasks(extra, t) ==
    UpstreamWithin(extra, RequiresWith(extra, t), Cardinality(Tasks))

HasCycle(extra, root) ==
    \E t \in {root} \cup UpstreamTasks(extra, root) :
        t \in UpstreamTasks(extra, t)

\* the edits of the task definitions that close a cycle under the flow's root
CyclicEdits(f) ==
    {{<<t, u>>} : t \in FlowTasks(f), u \in FlowTasks(f)}
        \cap {extra \in SUBSET (Tasks \X Tasks) : HasCycle(extra, FlowRoot(f))}

ResolveError(extra, root, b) ==
    IF HasCycle(extra, root) THEN "CyclicDependencyError"
    ELSE IF Required(root) \ DOMAIN b # {} THEN "UnboundParameterError"
    ELSE "none"

\* the errors that the run() calls of each flow can fail to resolve with
ResolveErrors ==
    [f \in Flows |->
        {ResolveError(x, FlowRoot(f), b) :
            x \in {{}} \cup CyclicEdits(f), b \in PartialBindings(f)} \ {"none"}]

\* variant: the part of the graph that could be resolved is run before the
\* error is raised
RunUnresolved_Partial ==
    \E e \in ResolveErrors[flow] :
        /\ Enter("run_error", e, {})
        /\ \E i \in FlowInstances(flow) :
              /\ Upstream[i] = {}
              /\ store' = store \cup Artifacts(i)
              /\ execs' = [execs EXCEPT ![i] = @ + 1]
        /\ pc' = "done"
        /\ UNCHANGED <<todo, results, report, faults>>

\* resolution fails: the error is raised before anything is scheduled
RunUnresolved ==
    \E e \in ResolveErrors[flow] :
        /\ Enter("run_error", e, {})
        /\ pc' = "done"
        /\ UNCHANGED <<store, todo, results, execs, report, faults>>

Next ==
    \/ Run
    \/ RunAll
    \/ ExecOk
    \/ ExecFail
    \/ FinishStrategy
    \/ Return
    \/ Preview
    \/ Reset
    \/ ResetCascade
    \/ ResetUpstream
    \/ Rmtree
    \/ RunUnresolved

Spec == Init /\ [][Next]_vars

(***************************************************************************)
(* Names used by the properties below.                                     *)
(***************************************************************************)
Of(t, s) == MkInst(t, Binding(s))

S1Graph == Graph("trading", "strategy1")

\* the strategies the current run() call has run or is running
Ran(s) == {i \in Instances : results[s][i] = "ran"}

Failed(s) == {i \in Instances : results[s][i] = "failed"}

Scheduled(s) == {i \in Instances : results[s][i] # "none"}

\* every output of the instance and of everything upstream of it is in st
AllThere(st, i) == \A j \in ClosureOf[i] : Artifacts(j) \subseteq st

RunDone == pc = "done" /\ call.op = "run"

NoFailure == \A s \in StrategyNames(flow) : Failed(s) = {}

TypeOK ==
    /\ flow \in Flows
    /\ store \subseteq UNION {Artifacts(i) : i \in FlowInstances(flow)}
    /\ pc \in {"idle", "running", "done"}
    /\ calls \in 0..MaxCalls
    /\ faults \in 0..MaxFaults

(***************************************************************************)
(* C1 (as stated): a node is reported COMPLETE by preview exactly when     *)
(* every declared output of it exists in the store.                        *)
(***************************************************************************)
C1_CompleteIffOwnOutputs ==
    call.op = "preview" =>
        \A i \in Instances :
            report[i] # "none" =>
                (report[i] = "COMPLETE" <=> Artifacts(i) \subseteq store)

(***************************************************************************)
(* C1 (amended): a node is reported COMPLETE by preview exactly when every *)
(* declared output of it exists in the store and every upstream node is    *)
(* reported COMPLETE; one missing output of a task with several outputs    *)
(* makes it PENDING.  A node a run records as already complete has all its *)
(* outputs in the store.                                                   *)
(***************************************************************************)
C1_CompleteIffOutputsAndUpstream ==
    /\ call.op = "preview" =>
          \A i \in Instances :
              report[i] # "none" =>
                  (report[i] = "COMPLETE" <=>
                      /\ Artifacts(i) \subseteq store
                      /\ \A u \in Upstream[i] : report[u] = "COMPLETE")
    /\ \A s \in StrategyNames(flow) : \A i \in Instances :
          results[s][i] = "complete" => Artifacts(i) \subseteq store

\* preview of a graph in which a two-output task has one output only, its
\* upstream being complete
C1_Witness ==
    /\ call.op = "preview"
    /\ \E i \in Instances :
          /\ report[i] = "PENDING"
          /\ Cardinality(Artifacts(i)) = 2
          /\ Cardinality(Artifacts(i) \cap store) = 1
          /\ \A u \in Upstream[i] : report[u] = "COMPLETE"

(***************************************************************************)
(* C2: no node is taken as complete (reported COMPLETE by preview, or      *)
(* recorded as already complete by a run) while an upstream node is not;   *)
(* when the strategy1 graph has every artifact but those of TradingSignals,*)
(* preview('strategy1') reports Backtest PENDING.                          *)
(***************************************************************************)
C2_AfterResetOfSignals ==
    /\ flow = "trading"
    /\ call.op = "preview"
    /\ call.strategies = {"strategy1"}
    /\ Artifacts(Of("TradingSignals", "strategy1")) \cap store = {}
    /\ \A i \in S1Graph \ {Of("TradingSignals", "strategy1")} :
          Artifacts(i) \subseteq store

C2_NoCompleteOverIncompleteUpstream ==
    /\ call.op = "preview" =>
          \A i \in Instances :
              report[i] = "COMPLETE" =>
                  \A u \in Upstream[i] :
                      report[u] = "COMPLETE" /\ Artifacts(u) \subseteq store
    /\ \A s \in StrategyNames(flow) : \A i \in Instances :
          results[s][i] = "complete" =>
              \A u \in ClosureOf[i] : Artifacts(u) \subseteq store
    /\ C2_AfterResetOfSignals =>
          report[Of("Backtest", "strategy1")] = "PENDING"

\* the preview the notebook prints after flow.reset(task=TradingSignals)
C2_Witness ==
    /\ C2_AfterResetOfSignals
    /\ report[Of("Backtest", "strategy1")] = "PENDING"
    /\ report[Of("TradingSignals", "strategy1")] = "PENDING"
    /\ report[Of("GetDataPx", "strategy1")] = "COMPLETE"
    /\ report[Of("GetDataEcon", "strategy1")] = "COMPLETE"

(***************************************************************************)
(* C3: a run of a strategy whose root was complete when run was called has *)
(* no "ran" (and no "failed") entry in its Run Record; when that holds of  *)
(* every strategy of the call, no run procedure was started and the store  *)
(* is what it was.                                                         *)
(***************************************************************************)
C3_RunIdempotent ==
    RunDone =>
        /\ \A s \in call.strategies :
              AllThere(store0, RootOf(flow, s)) =>
                  Ran(s) = {} /\ Failed(s) = {}
        /\ (\A s \in call.strategies : AllThere(store0, RootOf(flow, s))) =>
              /\ store = store0
              /\ \A i \in Instances : execs[i] = 0

\* the second flow.run(): strategy1's root is complete, one task is scheduled
C3_Witness ==
    /\ RunDone
    /\ \E s \in call.strategies :
          /\ AllThere(store0, RootOf(flow, s))
          /\ Scheduled(s) = {RootOf(flow, s)}
          /\ results[s][RootOf(flow, s)] = "complete"

(***************************************************************************)
(* C4 (as stated): after flow.run() on an empty store, every instance that *)
(* two strategies share was executed exactly once; strategy2 ran only      *)
(* GetDataPx and Backtest, 'gbm' ran only ModelData and ModelTrain.        *)
(***************************************************************************)
SharedInstances ==
    {i \in FlowInstances(flow) :
        \E s1, s2 \in StrategyNames(flow) :
            s1 # s2 /\ i \in Graph(flow, s1) \cap Graph(flow, s2)}

RunAllDone == RunDone /\ call.strategies = StrategyNames(flow)

C4_SecondStrategyRuns ==
    /\ \A i \in SharedInstances : execs[i] = 1
    /\ flow = "trading" =>
          Ran("strategy2") = {Of("GetDataPx", "strategy2"),
                              Of("Backtest", "strategy2")}
    /\ flow = "ml" =>
          /\ Ran("gbm") = {Of("ModelData", "gbm"), Of("ModelTrain", "gbm")}
          /\ results["gbm"][Of("GetData", "gbm")] = "complete"

C5_Targets == ResetTargets(call.task, call.strategies)

C5_Cone == C5_Targets \cup {i \in FlowInstances(flow) :
                               \E n \in C5_Targets : n # i /\ n \in ClosureOf[i]}

C5_CascadingReset ==
    (pc = "done" /\ call.op = "reset_cascade") =>
        /\ \A i \in C5_Cone : ~AllThere(store, i)
        /\ \A i \in FlowInstances(flow) \ C5_Cone :
              /\ AllThere(store0, i) => AllThere(store, i)
              /\ Artifacts(i) \cap store = Artifacts(i) \cap store0

\* a cascading reset of a complete node that has both an upstream node and a
\* dependent, all complete before
C5_Witness ==
    /\ pc = "done" /\ call.op = "reset_cascade"
    /\ \E n \in C5_Targets :
          /\ \E d \in C5_Cone \ {n} : AllThere(store0, d) /\ ~AllThere(store, d)
          /\ \E u \in Upstream[n] : AllThere(store, u)

(***************************************************************************)
(* C6: when node N failed in a run, every instance of the graph that       *)
(* depends on N was not started in that run, is recorded as skipped for    *)
(* upstream failure and is incomplete after the run; every scheduled node  *)
(* that depends on no failed node was executed.                            *)
(***************************************************************************)
C6_DependsOnFailed(s, i) ==
    \E n \in Failed(s) : n # i /\ n \in ClosureOf[i]

C6_FailureIsolation ==
    (RunDone /\ Cardinality(call.strategies) = 1) =>
        \A s \in call.strategies : \A i \in Graph(flow, s) :
            /\ C6_DependsOnFailed(s, i) =>
                  /\ results[s][i] = "upfail"
                  /\ execs[i] = 0
                  /\ ~AllThere(store, i)
            /\ (~C6_DependsOnFailed(s, i) /\ results[s][i] # "none") =>
                  /\ results[s][i] \in {"complete", "ran", "failed"}
                  /\ results[s][i] # "complete" => execs[i] = 1

(***************************************************************************)
(* C7: a run of one strategy on an empty store in which no run procedure   *)
(* fails executes every instance of the resolved graph exactly once and    *)
(* leaves every one complete; GetDataEcon, upstream of both TradingSignals *)
(* and GetDataPx, is one node: strategy1 schedules 4 tasks.                *)
(***************************************************************************)
C7_FreshRun ==
    (RunDone /\ store0 = {} /\ NoFailure) =>
        \A s \in call.strategies :
            /\ Scheduled(s) = Graph(flow, s)
            /\ \A i \in Graph(flow, s) : AllThere(store, i)
            /\ Cardinality(call.strategies) = 1 =>
                  /\ Ran(s) = Graph(flow, s)
                  /\ \A i \in Graph(flow, s) : execs[i] = 1
            /\ (flow = "trading" /\ call.strategies = {"strategy1"}) =>
                  /\ Cardinality(Scheduled(s)) = 4
                  /\ execs[Of("GetDataEcon", "strategy1")] = 1

\* flow.run('strategy1') of the notebook: 4 tasks ran successfully
C7_Witness ==
    /\ RunDone /\ store0 = {} /\ NoFailure
    /\ flow = "trading" /\ call.strategies = {"strategy1"}
    /\ Cardinality(Ran("strategy1")) = 4
    /\ Of("GetDataEcon", "strategy1") \in
          Upstream[Of("TradingSignals", "strategy1")]
              \cap Upstream[Of("GetDataPx", "strategy1")]

(***************************************************************************)
(* C8 (as stated): when a run of one strategy starts from its graph fully  *)
(* complete but for a reset of task T (the outputs of T deleted, or those  *)
(* of T and of its dependents), exactly T and the dependents of T are      *)
(* executed.                                                               *)
(***************************************************************************)
\* st is the complete graph g less the outputs of the instances in ns
C8_Less(st, g, ns) ==
    /\ \A i \in g \ ns : Artifacts(i) \subseteq st
    /\ \A i \in ns : Artifacts(i) \cap st = {}

C8_AfterReset(s, n) ==
    \/ C8_Less(store0, Graph(flow, s), {n})
    \/ C8_Less(store0, Graph(flow, s), {n} \cup Dependents(n, Graph(flow, s)))

S3Graph == Graph("trading", "strategy3")

C9_OtherStrategyRun ==
    /\ flow = "trading"
    /\ RunDone
    /\ call.strategies = {"strategy3"}
    /\ \A i \in S1Graph : Artifacts(i) \subseteq store0
    /\ \A i \in S3Graph \ S1Graph : Artifacts(i) \cap store0 = {}

C9_NothingShared ==
    /\ S3Graph \cap S1Graph = {}
    /\ Cardinality(S3Graph) = 4
    /\ \A i \in S3Graph : results["strategy3"][i] # "complete"
    /\ \A i \in S1Graph : AllThere(store, i)

C10_PreviewReadsOnly ==
    (pc = "done" /\ call.op = "preview") =>
        /\ store = store0
        /\ \A i \in Instances : execs[i] = 0
        /\ \A s \in StrategyNames(flow) : Scheduled(s) = {}
        /\ \A s \in call.strategies : \A i \in Instances :
              report[i] = IF i \notin Graph(flow, s) THEN "none"
                          ELSE IF AllThere(store0, i) THEN "COMPLETE"
                          ELSE "PENDING"

\* a preview that reports both statuses
C10_Witness ==
    /\ pc = "done" /\ call.op = "preview"
    /\ \E i, j \in Instances : report[i] = "COMPLETE" /\ report[j] = "PENDING"

(***************************************************************************)
(* C11: resolution errors are fail-fast.  When a run() call fails to       *)
(* resolve its root (a cycle, or a required parameter neither defaulted    *)
(* nor bound), no run procedure has been started, nothing has been         *)
(* scheduled and the store is as it was when the call was made.            *)
(***************************************************************************)
C11_ResolutionFailFast ==
    (pc = "done" /\ call.op = "run_error") =>
        /\ call.task \in {"CyclicDependencyError", "UnboundParameterError"}
        /\ store = store0
        /\ \A i \in Instances : execs[i] = 0
        /\ \A s \in StrategyNames(flow) : Scheduled(s) = {}

\* a call left without date_start fails over a store that holds artifacts
C11_Witness ==
    /\ pc = "done"
    /\ call.op = "run_error"
    /\ call.task = "UnboundParameterError"
    /\ store # {}
    /\ store = store0

(***************************************************************************)
(* C12 (as stated): during a run() call over every strategy, the run       *)
(* procedure of an instance that several strategies share is started at    *)
(* most once in total, whether it succeeds or fails.                       *)
(***************************************************************************)
C12_SharedAtMostOnce ==
    (call.op = "run" /\ call.strategies = StrategyNames(flow)) =>
        \A i \in SharedInstances : execs[i] <= 1

(***************************************************************************)
(* C13: a run procedure is started only in a state where every upstream    *)
(* instance of the node is complete, i.e. the outputs of each upstream     *)
(* instance and of everything above it are in the store.                   *)
(***************************************************************************)
C13_StartsAfterUpstream ==
    [][\A i \in Instances :
          execs'[i] > execs[i] => \A u \in Upstream[i] : AllThere(store, u)]_vars

\* the root of a strategy has been started, after its upstream nodes ran
C13_Witness ==
    /\ pc = "running"
    /\ \E s \in StrategyNames(flow) :
          /\ execs[RootOf(flow, s)] = 1
          /\ \A u \in Upstream[RootOf(flow, s)] : execs[u] = 1

(***************************************************************************)
(* C14 (as stated): an instance that has been reset stays incomplete until *)
(* its run procedure has run successfully.  The store does not record why  *)
(* an output is missing, so the instance is in this position whenever an   *)
(* output of it is missing: no step brings all its outputs into the store  *)
(* other than a step in which its run procedure runs and is recorded as    *)
(* ran.                                                                    *)
(***************************************************************************)
C14_IncompleteUntilRunSucceeds ==
    [][\A i \in Instances :
          (~(Artifacts(i) \subseteq store) /\ Artifacts(i) \subseteq store') =>
              /\ execs'[i] > execs[i]
              /\ results'[Head(todo)][i] = "ran"]_vars

(***************************************************************************)
(* C15: a node whose run procedure ends without every declared output in   *)
(* the store is recorded as failed, not as ran, in the Run Record of the   *)
(* strategy being run, and no node is started in that strategy's run while *)
(* a node upstream of it is recorded as failed.                            *)
(***************************************************************************)
C15_MissingOutputIsFailure ==
    [][\A i \in Instances :
          execs'[i] > execs[i] =>
              /\ ~(Artifacts(i) \subseteq store') =>
                     results'[Head(todo)][i] = "failed"
              /\ \A u \in ClosureOf[i] \ {i} :
                     results[Head(todo)][u] # "failed"]_vars

\* Backtest saved 'portfolio' but not 'pnl' and is recorded as failed
C15_Witness ==
    \E s \in {"strategy1", "strategy2", "strategy3"} :
        /\ flow = "trading"
        /\ results[s][Of("Backtest", s)] = "failed"
        /\ <<Of("Backtest", s), "portfolio">> \in store
        /\ <<Of("Backtest", s), "pnl">> \notin store

(***************************************************************************)
(* C16: a single-node reset deletes the artifacts of the instances it      *)
(* addresses and of no other: every artifact of every other instance,      *)
(* upstream or downstream, is in the store after the reset exactly when it *)
(* was there before.                                                       *)
(***************************************************************************)
C16_Addressed == {Of(call.task, s) : s \in call.strategies}

C16_SingleNodeResetFrame ==
    (pc = "done" /\ call.op = "reset") =>
        /\ \A i \in C16_Addressed : Artifacts(i) \cap store = {}
        /\ \A i \in Instances \ C16_Addressed :
              Artifacts(i) \cap store = Artifacts(i) \cap store0

\* reset(TradingSignals) for one strategy after a run of every strategy: the
\* artifacts upstream, downstream and under the other strategies are kept
C16_Witness ==
    /\ pc = "done"
    /\ call.op = "reset"
    /\ call.task = "TradingSignals"
    /\ call.strategies = {"strategy1"}
    /\ \A i \in FlowInstances("trading") : Artifacts(i) \subseteq store0
    /\ Artifacts(Of("GetDataEcon", "strategy1")) \subseteq store
    /\ Artifacts(Of("Backtest", "strategy1")) \subseteq store
    /\ Artifacts(Of("TradingSignals", "strategy3")) \subseteq store

(***************************************************************************)
(* C17 (as stated): no implicit retries.  Within one run() call the run    *)
(* procedure of a node is started at most once; a node that failed is not  *)
(* started again before the call has returned.                             *)
(***************************************************************************)
C17_NoRetryWithinCall ==
    call.op = "run" => \A i \in Instances : execs[i] <= 1

(***************************************************************************)
(* C18 (as stated, the part on statuses): when a run() call has finished,  *)
(* every node of the resolved graph of each strategy it ran has one of the *)
(* statuses already-complete, ran-successfully, failed,                    *)
(* skipped-due-to-upstream-failure in that strategy's Run Record.          *)
(***************************************************************************)
C18_Statuses == {"complete", "ran", "failed", "upfail"}

C18_Left ==
    IF todo = <<>> THEN 0
    ELSE Len(todo) * (Cardinality(Instances) + 1)
         + Cardinality({i \in Instances : results[Head(todo)][i] = "pending"})

C19_FailedInCall == UNION {Failed(s) : s \in StrategyNames(flow)}

C19_OtherStrategiesComplete ==
    RunAllDone =>
        \A s \in StrategyNames(flow) :
            /\ results[s][RootOf(flow, s)] # "none"
            /\ Graph(flow, s) \cap C19_FailedInCall = {} =>
                  \A i \in Graph(flow, s) : Artifacts(i) \subseteq store

\* ModelTrain fails under 'ols', the first strategy; 'gbm' is run after it
\* and completes
C19_Witness ==
    /\ RunAllDone
    /\ flow = "ml"
    /\ Failed("ols") = {Of("ModelTrain", "ols")}
    /\ Ran("gbm") = {Of("ModelData", "gbm"), Of("ModelTrain", "gbm")}
    /\ AllThere(store, Of("ModelTrain", "gbm"))

(***************************************************************************)
(* C21: parameter inheritance.  In the resolved graph of every strategy,   *)
(* each instance is identified by exactly the parameters its task carries, *)
(* each with the value the strategy binds; an upstream instance has, for   *)
(* every parameter it carries, the value of its dependent; and two         *)
(* strategies that agree on the parameters a task carries resolve to the   *)
(* same instance of that task.                                             *)
(***************************************************************************)
C21_Agree(t, s1, s2) == \A p \in Carries(t) : Binding(s1)[p] = Binding(s2)[p]

\* the property for the resolved graphs of flow f
C21_InheritsIn(f) ==
    /\ \A s \in StrategyNames(f) :
          \A i \in Graph(f, s) :
              /\ DOMAIN i.params = Carries(i.task)
              /\ \A p \in DOMAIN i.params : i.params[p] = Binding(s)[p]
              /\ \A u \in Upstream[i] :
                    \A p \in DOMAIN u.params :
                        p \in DOMAIN i.params /\ u.params[p] = i.params[p]
    /\ \A s1, s2 \in StrategyNames(f) :
          \A t \in FlowTasks(f) :
              C21_Agree(t, s1, s2) =>
                  {i \in Graph(f, s1) : i.task = t}
                      = {i \in Graph(f, s2) : i.task = t}

C21_Inherits == [f \in Flows |-> C21_InheritsIn(f)]

C21_ParameterInheritance == C21_Inherits[flow]

\* run() over every strategy from an empty store: strategy2 differs from
\* strategy1 in symbols only and finds the TradingSignals that strategy1 ran
C21_Witness ==
    /\ RunAllDone
    /\ flow = "trading"
    /\ store0 = {}
    /\ C21_Agree("TradingSignals", "strategy1", "strategy2")
    /\ Binding("strategy1").symbols # Binding("strategy2").symbols
    /\ results["strategy1"][Of("TradingSignals", "strategy1")] = "ran"
    /\ \E i \in Graph(flow, "strategy2") :
          /\ i.task = "TradingSignals"
          /\ DOMAIN i.params = {"date_start", "date_end", "lookback_period"}
          /\ results["strategy2"][i] = "complete"

(***************************************************************************)
(* C22: after reset_upstream() or after the store directory is wiped, no   *)
(* instance of any strategy's graph has an output in the store, so every   *)
(* one is incomplete; the store is then empty, and a preview made over the *)
(* empty store reports every node of the strategy's graph PENDING.         *)
(***************************************************************************)
C22_AllPendingAfterWholeReset ==
    /\ (pc = "done" /\ call.op \in {"reset_upstream", "rmtree"}) =>
          /\ \A i \in FlowInstances(flow) : Artifacts(i) \cap store = {}
          /\ store = {}
    /\ (pc = "done" /\ call.op = "preview" /\ store = {}) =>
          \A s \in call.strategies :
              \A i \in Graph(flow, s) : report[i] = "PENDING"

\* reset_upstream() on a store that holds every output of every strategy
C22_Witness ==
    /\ pc = "done"
    /\ call.op = "reset_upstream"
    /\ \A i \in FlowInstances(flow) : Artifacts(i) \subseteq store0
    /\ store = {}

(***************************************************************************)
(* C23: reset acts on task instances.  When reset(task) for some           *)
(* strategies returns, the task has no output left under any strategy that *)
(* binds the parameters the task carries to the same values as a named     *)
(* strategy, and under a strategy that binds them differently from every   *)
(* named strategy the task's instance is complete if it was before.        *)
(***************************************************************************)
C23_TaskIn(s) == {i \in Graph(flow, s) : i.task = call.task}

C23_ResetActsOnInstances ==
    (pc = "done" /\ call.op = "reset") =>
        \A s2 \in StrategyNames(flow) :
            \A i \in C23_TaskIn(s2) :
                IF \E s \in call.strategies : C21_Agree(call.task, s, s2)
                THEN Artifacts(i) \cap store = {}
                ELSE AllThere(store0, i) => AllThere(store, i)

\* reset(TradingSignals) under strategy1 after a run of every strategy: the
\* TradingSignals of strategy2 is gone, that of strategy3 is still complete
C23_Witness ==
    /\ pc = "done"
    /\ call.op = "reset"
    /\ call.task = "TradingSignals"
    /\ call.strategies = {"strategy1"}
    /\ \A i \in FlowInstances("trading") : Artifacts(i) \subseteq store0
    /\ \A i \in C23_TaskIn("strategy2") : Artifacts(i) \cap store = {}
    /\ \A i \in C23_TaskIn("strategy3") : AllThere(store, i)

(***************************************************************************)
(* C24: a failure does not roll back the run.  Throughout a run() call     *)
(* nothing that was in the store at the call is removed and every node     *)
(* recorded as ran is complete, whatever fails later; a run starts only    *)
(* nodes that were incomplete when it was called; and when the call has    *)
(* finished, the only incomplete nodes of the graphs it ran are the nodes  *)
(* that failed and their dependents, so that is all a later run executes.  *)
(***************************************************************************)
C24_NoRollback ==
    call.op = "run" =>
        /\ store0 \subseteq store
        /\ \A s \in call.strategies : \A i \in Ran(s) : AllThere(store, i)
        /\ \A i \in Instances : execs[i] >= 1 => ~AllThere(store0, i)
        /\ pc = "done" =>
              \A s \in call.strategies :
                  \A i \in Graph(flow, s) :
                      ~AllThere(store, i) =>
                          \E n \in C19_FailedInCall : n \in ClosureOf[i]

\* ModelTrain raises before saving, after GetData and ModelData ran: both
\* are complete when the run has finished and ModelTrain alone is not
C24_Witness ==
    /\ RunDone
    /\ flow = "ml"
    /\ call.strategies = {"ols"}
    /\ Ran("ols") = {Of("GetData", "ols"), Of("ModelData", "ols")}
    /\ Failed("ols") = {Of("ModelTrain", "ols")}
    /\ AllThere(store, Of("ModelData", "ols"))
    /\ Artifacts(Of("ModelTrain", "ols")) \cap store = {}

====
